---- MODULE Spec2Model ----
(***************************************************************************)
(* InspireWorks IVR (src/app.py): a Flask application that places an       *)
(* outbound call through the Plivo REST API (/make-call) and answers the   *)
(* provider's webhooks with Plivo XML documents (/ivr/...).                *)
(*                                                                         *)
(* Representation.                                                         *)
(*  - A Plivo XML document is the sequence of the top-level elements of    *)
(*    its <Response>, each a record with a "tag" field; nested elements    *)
(*    are in "children".  to_string() serialises that tree, so two equal   *)
(*    trees are the same bytes.                                            *)
(*  - A URL is [host, path]: the path is the sequence of its segments,     *)
(*    each one preceded by a "/" in the text ("http://h/" is <<"">>).      *)
(*  - A phone number given by a client is a sequence of one-character      *)
(*    strings, so that startswith and concatenation are computed.          *)
(*  - A form or a JSON object is a set of <<key, value>> pairs.            *)
(***************************************************************************)
EXTENDS Integers, Sequences, FiniteSets, TLC

VARIABLES
    config,   \* module-level configuration read from the environment
    req,      \* the last request an HTTP client sent to an IVR endpoint
    resp,     \* the response to req
    mc,       \* the /make-call invocation in progress or last finished
    call,     \* the call the provider drives from the answer URL
    other     \* a second call in progress at the same time

vars == <<config, req, resp, mc, call, other>>

(***************************************************************************)
(* Bounds of the model.                                                    *)
(***************************************************************************)
MaxLen == 3        \* longest target_number a client sends
MaxInvalid == 2    \* keys outside {1, 2} a caller presses within one call

(***************************************************************************)
(* Configuration and catalogs (src/app.py 27-83).                          *)
(***************************************************************************)
PLIVO_PHONE_NUMBER == "+14692463990"
ASSOCIATE_NUMBER == "+918031274121"

AUDIO_FILES ==
    [english |-> "https://s3.amazonaws.com/plivocloud/Trumpet.mp3",
     spanish |-> "https://s3.amazonaws.com/plivocloud/Trumpet.mp3"]

MESSAGES ==
    [welcome |->
        [english |-> "Welcome to InspireWorks. ",
         spanish |-> "Bienvenido a InspireWorks. "],
     language_select |-> "Press 1 for English. " \o "Para Español, oprima 2. ",
     main_menu |->
        [english |-> "You have selected English. "
                     \o "Press 1 to hear a short audio message. "
                     \o "Press 2 to speak with a live associate. ",
         spanish |-> "Ha seleccionado Español. "
                     \o "Oprima 1 para escuchar un mensaje de audio. "
                     \o "Oprima 2 para hablar con un asociado. "],
     playing_audio |->
        [english |-> "Now playing your audio message.",
         spanish |-> "Reproduciendo su mensaje de audio."],
     connecting |->
        [english |-> "Please wait while we connect you to a live associate.",
         spanish |-> "Por favor espere mientras lo conectamos con un asociado."],
     invalid_input |->
        [english |-> "Sorry, that is not a valid option. Please try again.",
         spanish |-> "Lo siento, esa no es una opción válida. Por favor intente de nuevo."],
     no_input |->
        [english |-> "We did not receive any input.",
         spanish |-> "No recibimos ninguna entrada."],
     goodbye |->
        [english |-> "Thank you for calling InspireWorks. Goodbye!",
         spanish |-> "Gracias por llamar a InspireWorks. ¡Adiós!"]]

(***************************************************************************)
(* Requests.                                                               *)
(***************************************************************************)
\* request.form.get(key, default)
FormGet(form, key, default) ==
    IF \E p \in form : p[1] = key
    THEN (CHOOSE p \in form : p[1] = key)[2]
    ELSE default

\* url_for(endpoint, **values, _external=True): the route's path under the
\* host of the current request.
url_for(r, endpoint, lang) ==
    [host |-> r.host,
     path |-> CASE endpoint = "ivr_welcome" -> <<"ivr", "welcome">>
                [] endpoint = "ivr_language_handler" -> <<"ivr", "language-handler">>
                [] endpoint = "ivr_main_menu" -> <<"ivr", "main-menu", lang>>
                [] endpoint = "ivr_menu_handler" -> <<"ivr", "menu-handler", lang>>]

(***************************************************************************)
(* Plivo XML elements.                                                     *)
(***************************************************************************)
Speak(content, voice, language) ==
    [tag |-> "Speak", content |-> content, voice |-> voice, language |-> language]

Redirect(url, method) == [tag |-> "Redirect", url |-> url, method |-> method]

Play(url) == [tag |-> "Play", url |-> url]

Hangup == [tag |-> "Hangup"]

Xml(doc) == [status |-> 200, mimetype |-> "text/xml", doc |-> doc]

(***************************************************************************)
(* Level 1: language selection.                                            *)
(***************************************************************************)
\* A variant of ivr_welcome whose fallback starts the step again.
ivr_welcome_loops(r) ==
    Xml(<< [tag |-> "GetDigits",
            action |-> url_for(r, "ivr_language_handler", ""),
            method |-> "POST",
            timeout |-> 10,
            numDigits |-> 1,
            retries |-> 2,
            validDigits |-> {"1", "2"},
            children |-> << Speak(MESSAGES.welcome.english \o MESSAGES.language_select,
                                  "Polly.Joanna", "en-US") >>],
           Speak(MESSAGES.no_input.english, "Polly.Joanna", "en-US"),
           Redirect(url_for(r, "ivr_welcome", ""), "GET") >>)

\* A variant of ivr_welcome that has the digit sent with GET.
ivr_welcome_get_action(r) ==
    Xml(<< [tag |-> "GetDigits",
            action |-> url_for(r, "ivr_language_handler", ""),
            method |-> "GET",
            timeout |-> 10,
            numDigits |-> 1,
            retries |-> 2,
            validDigits |-> {"1", "2"},
            children |-> << Speak(MESSAGES.welcome.english \o MESSAGES.language_select,
                                  "Polly.Joanna", "en-US") >>],
           Speak(MESSAGES.no_input.english \o " " \o MESSAGES.goodbye.english,
                 "Polly.Joanna", "en-US"),
           Hangup >>)

\* A variant of ivr_welcome that posts the language digit to the menu handler.
ivr_welcome_skips(r) ==
    Xml(<< [tag |-> "GetDigits",
            action |-> url_for(r, "ivr_menu_handler", "english"),
            method |-> "POST",
            timeout |-> 10,
            numDigits |-> 1,
            retries |-> 2,
            validDigits |-> {"1", "2"},
            children |-> << Speak(MESSAGES.welcome.english \o MESSAGES.language_select,
                                  "Polly.Joanna", "en-US") >>],
           Speak(MESSAGES.no_input.english \o " " \o MESSAGES.goodbye.english,
                 "Polly.Joanna", "en-US"),
           Hangup >>)

ivr_welcome(r) ==
    Xml(<< [tag |-> "GetDigits",
            action |-> url_for(r, "ivr_language_handler", ""),
            method |-> "POST",
            timeout |-> 10,
            numDigits |-> 1,
            retries |-> 2,
            validDigits |-> {"1", "2"},
            children |-> << Speak(MESSAGES.welcome.english \o MESSAGES.language_select,
                                  "Polly.Joanna", "en-US") >>],
           Speak(MESSAGES.no_input.english \o " " \o MESSAGES.goodbye.english,
                 "Polly.Joanna", "en-US"),
           Hangup >>)

\* Variants of ivr_language_handler with a plausible slip: the else branch
\* sends the caller on to the main menu; the two languages are swapped.
ivr_language_handler_fallthrough(r) ==
    LET digit == FormGet(r.form, "Digits", "") IN
    IF digit = "2"
    THEN Xml(<< Redirect(url_for(r, "ivr_main_menu", "spanish"), "GET") >>)
    ELSE IF digit = "1"
    THEN Xml(<< Redirect(url_for(r, "ivr_main_menu", "english"), "GET") >>)
    ELSE Xml(<< Speak(MESSAGES.invalid_input.english, "Polly.Joanna", "en-US"),
                Redirect(url_for(r, "ivr_main_menu", "english"), "GET") >>)

ivr_language_handler_swapped(r) ==
    LET digit == FormGet(r.form, "Digits", "") IN
    IF digit = "1"
    THEN Xml(<< Redirect(url_for(r, "ivr_main_menu", "spanish"), "GET") >>)
    ELSE IF digit = "2"
    THEN Xml(<< Redirect(url_for(r, "ivr_main_menu", "english"), "GET") >>)
    ELSE Xml(<< Speak(MESSAGES.invalid_input.english, "Polly.Joanna", "en-US"),
                Redirect(url_for(r, "ivr_welcome", ""), "GET") >>)

ivr_language_handler(r) ==
    LET digit == FormGet(r.form, "Digits", "") IN
    IF digit = "1"
    THEN Xml(<< Redirect(url_for(r, "ivr_main_menu", "english"), "GET") >>)
    ELSE IF digit = "2"
    THEN Xml(<< Redirect(url_for(r, "ivr_main_menu", "spanish"), "GET") >>)
    ELSE Xml(<< Speak(MESSAGES.invalid_input.english, "Polly.Joanna", "en-US"),
                Redirect(url_for(r, "ivr_welcome", ""), "GET") >>)

(***************************************************************************)
(* Level 2: main menu.                                                     *)
(***************************************************************************)
\* A variant of the language check that defaults to the other language.
ValidateLanguage_secondary(lang) ==
    IF lang \notin {"english", "spanish"} THEN "spanish" ELSE lang

\* "if lang not in ['english', 'spanish']: lang = 'english'"
ValidateLanguage(lang) ==
    IF lang \notin {"english", "spanish"} THEN "english" ELSE lang

Voice(lang) == IF lang = "english" THEN "Polly.Joanna" ELSE "Polly.Conchita"

VoiceLang(lang) == IF lang = "english" THEN "en-US" ELSE "es-ES"

\* A variant of ivr_main_menu that keeps the language in a module-level
\* variable which a request of another call has overwritten.
ivr_main_menu_shared(r, lang0) ==
    LET lang == IF other.end = "hangup" THEN "spanish" ELSE ValidateLanguage(lang0)
        voice == Voice(lang)
        voice_lang == VoiceLang(lang)
    IN Xml(<< [tag |-> "GetDigits",
               action |-> url_for(r, "ivr_menu_handler", lang),
               method |-> "POST",
               timeout |-> 10,
               numDigits |-> 1,
               retries |-> 2,
               validDigits |-> {"1", "2"},
               children |-> << Speak(MESSAGES.main_menu[lang], voice, voice_lang) >>],
              Speak(MESSAGES.no_input[lang] \o " " \o MESSAGES.goodbye[lang],
                    voice, voice_lang),
              Hangup >>)

\* A variant of ivr_main_menu that posts the digit to the english handler
\* whatever the language.
ivr_main_menu_fixed_action(r, lang0) ==
    LET lang == ValidateLanguage(lang0)
        voice == Voice(lang)
        voice_lang == VoiceLang(lang)
    IN Xml(<< [tag |-> "GetDigits",
               action |-> url_for(r, "ivr_menu_handler", "english"),
               method |-> "POST",
               timeout |-> 10,
               numDigits |-> 1,
               retries |-> 2,
               validDigits |-> {"1", "2"},
               children |-> << Speak(MESSAGES.main_menu[lang], voice, voice_lang) >>],
              Speak(MESSAGES.no_input[lang] \o " " \o MESSAGES.goodbye[lang],
                    voice, voice_lang),
              Hangup >>)

\* A variant of ivr_main_menu whose fallback starts the step again.
ivr_main_menu_reprompt(r, lang0) ==
    LET lang == ValidateLanguage(lang0)
        voice == Voice(lang)
        voice_lang == VoiceLang(lang)
    IN Xml(<< [tag |-> "GetDigits",
               action |-> url_for(r, "ivr_menu_handler", lang),
               method |-> "POST",
               timeout |-> 10,
               numDigits |-> 1,
               retries |-> 2,
               validDigits |-> {"1", "2"},
               children |-> << Speak(MESSAGES.main_menu[lang], voice, voice_lang) >>],
              Speak(MESSAGES.no_input[lang], voice, voice_lang),
              Redirect(url_for(r, "ivr_main_menu", lang), "GET") >>)

ivr_main_menu(r, lang0) ==
    LET lang == ValidateLanguage(lang0)
        voice == Voice(lang)
        voice_lang == VoiceLang(lang)
    IN Xml(<< [tag |-> "GetDigits",
               action |-> url_for(r, "ivr_menu_handler", lang),
               method |-> "POST",
               timeout |-> 10,
               numDigits |-> 1,
               retries |-> 2,
               validDigits |-> {"1", "2"},
               children |-> << Speak(MESSAGES.main_menu[lang], voice, voice_lang) >>],
              Speak(MESSAGES.no_input[lang] \o " " \o MESSAGES.goodbye[lang],
                    voice, voice_lang),
              Hangup >>)

\* A variant of ivr_menu_handler that validates the language for the messages
\* but redirects to the language segment it was given.
ivr_menu_handler_rawredirect(r, lang0) ==
    LET lang == IF lang0 \in {"english", "spanish"} THEN lang0 ELSE "english"
        voice == IF lang = "english" THEN "Polly.Joanna" ELSE "Polly.Conchita"
        voice_lang == IF lang = "english" THEN "en-US" ELSE "es-ES"
        digit == FormGet(r.form, "Digits", "")
    IN IF digit = "1"
       THEN Xml(<< Speak(MESSAGES.playing_audio[lang], voice, voice_lang),
                   Play(AUDIO_FILES[lang]),
                   Speak(MESSAGES.goodbye[lang], voice, voice_lang),
                   Hangup >>)
       ELSE IF digit = "2"
       THEN Xml(<< Speak(MESSAGES.connecting[lang], voice, voice_lang),
                   [tag |-> "Dial",
                    callerId |-> PLIVO_PHONE_NUMBER,
                    timeout |-> 30,
                    children |-> << [tag |-> "Number", number |-> ASSOCIATE_NUMBER] >>],
                   Speak(MESSAGES.goodbye[lang], voice, voice_lang),
                   Hangup >>)
       ELSE Xml(<< Speak(MESSAGES.invalid_input[lang], voice, voice_lang),
                   Redirect(url_for(r, "ivr_main_menu", lang0), "GET") >>)

\* A variant of ivr_menu_handler that starts the call over on an invalid digit.
ivr_menu_handler_restart(r, lang0) ==
    LET lang == ValidateLanguage(lang0)
        voice == Voice(lang)
        voice_lang == VoiceLang(lang)
        digit == FormGet(r.form, "Digits", "")
    IN IF digit = "1"
       THEN Xml(<< Speak(MESSAGES.playing_audio[lang], voice, voice_lang),
                   Play(AUDIO_FILES[lang]),
                   Speak(MESSAGES.goodbye[lang], voice, voice_lang),
                   Hangup >>)
       ELSE IF digit = "2"
       THEN Xml(<< Speak(MESSAGES.connecting[lang], voice, voice_lang),
                   [tag |-> "Dial",
                    callerId |-> PLIVO_PHONE_NUMBER,
                    timeout |-> 30,
                    children |-> << [tag |-> "Number", number |-> ASSOCIATE_NUMBER] >>],
                   Speak(MESSAGES.goodbye[lang], voice, voice_lang),
                   Hangup >>)
       ELSE Xml(<< Speak(MESSAGES.invalid_input[lang], voice, voice_lang),
                   Redirect(url_for(r, "ivr_welcome", ""), "GET") >>)

\* A variant of ivr_menu_handler that leaves the call open after the bridge.
ivr_menu_handler_nohangup(r, lang0) ==
    LET lang == ValidateLanguage(lang0)
        voice == Voice(lang)
        voice_lang == VoiceLang(lang)
        digit == FormGet(r.form, "Digits", "")
    IN IF digit = "1"
       THEN Xml(<< Speak(MESSAGES.playing_audio[lang], voice, voice_lang),
                   Play(AUDIO_FILES[lang]),
                   Speak(MESSAGES.goodbye[lang], voice, voice_lang),
                   Hangup >>)
       ELSE IF digit = "2"
       THEN Xml(<< Speak(MESSAGES.connecting[lang], voice, voice_lang),
                   [tag |-> "Dial",
                    callerId |-> PLIVO_PHONE_NUMBER,
                    timeout |-> 30,
                    children |-> << [tag |-> "Number", number |-> ASSOCIATE_NUMBER] >>],
                   Speak(MESSAGES.goodbye[lang], voice, voice_lang) >>)
       ELSE Xml(<< Speak(MESSAGES.invalid_input[lang], voice, voice_lang),
                   Redirect(url_for(r, "ivr_main_menu", lang), "GET") >>)

\* A variant of ivr_menu_handler that goes back to the menu after the bridge.
ivr_menu_handler_returns(r, lang0) ==
    LET lang == ValidateLanguage(lang0)
        voice == Voice(lang)
        voice_lang == VoiceLang(lang)
        digit == FormGet(r.form, "Digits", "")
    IN IF digit = "1"
       THEN Xml(<< Speak(MESSAGES.playing_audio[lang], voice, voice_lang),
                   Play(AUDIO_FILES[lang]),
                   Speak(MESSAGES.goodbye[lang], voice, voice_lang),
                   Hangup >>)
       ELSE IF digit = "2"
       THEN Xml(<< Speak(MESSAGES.connecting[lang], voice, voice_lang),
                   [tag |-> "Dial",
                    callerId |-> PLIVO_PHONE_NUMBER,
                    timeout |-> 30,
                    children |-> << [tag |-> "Number", number |-> ASSOCIATE_NUMBER] >>],
                   Redirect(url_for(r, "ivr_main_menu", lang), "GET") >>)
       ELSE Xml(<< Speak(MESSAGES.invalid_input[lang], voice, voice_lang),
                   Redirect(url_for(r, "ivr_main_menu", lang), "GET") >>)

\* A variant of ivr_menu_handler that bridges to the associate on "1" and
\* plays the audio on "2".
ivr_menu_handler_swapped(r, lang0) ==
    LET lang == ValidateLanguage(lang0)
        voice == Voice(lang)
        voice_lang == VoiceLang(lang)
        digit == FormGet(r.form, "Digits", "")
    IN IF digit = "2"
       THEN Xml(<< Speak(MESSAGES.playing_audio[lang], voice, voice_lang),
                   Play(AUDIO_FILES[lang]),
                   Speak(MESSAGES.goodbye[lang], voice, voice_lang),
                   Hangup >>)
       ELSE IF digit = "1"
       THEN Xml(<< Speak(MESSAGES.connecting[lang], voice, voice_lang),
                   [tag |-> "Dial",
                    callerId |-> PLIVO_PHONE_NUMBER,
                    timeout |-> 30,
                    children |-> << [tag |-> "Number", number |-> ASSOCIATE_NUMBER] >>],
                   Speak(MESSAGES.goodbye[lang], voice, voice_lang),
                   Hangup >>)
       ELSE Xml(<< Speak(MESSAGES.invalid_input[lang], voice, voice_lang),
                   Redirect(url_for(r, "ivr_main_menu", lang), "GET") >>)

ivr_menu_handler(r, lang0) ==
    LET lang == ValidateLanguage(lang0)
        voice == Voice(lang)
        voice_lang == VoiceLang(lang)
        digit == FormGet(r.form, "Digits", "")
    IN IF digit = "1"
       THEN Xml(<< Speak(MESSAGES.playing_audio[lang], voice, voice_lang),
                   Play(AUDIO_FILES[lang]),
                   Speak(MESSAGES.goodbye[lang], voice, voice_lang),
                   Hangup >>)
       ELSE IF digit = "2"
       THEN Xml(<< Speak(MESSAGES.connecting[lang], voice, voice_lang),
                   [tag |-> "Dial",
                    callerId |-> PLIVO_PHONE_NUMBER,
                    timeout |-> 30,
                    children |-> << [tag |-> "Number", number |-> ASSOCIATE_NUMBER] >>],
                   Speak(MESSAGES.goodbye[lang], voice, voice_lang),
                   Hangup >>)
       ELSE Xml(<< Speak(MESSAGES.invalid_input[lang], voice, voice_lang),
                   Redirect(url_for(r, "ivr_main_menu", lang), "GET") >>)

(***************************************************************************)
(* Utility endpoint.                                                       *)
(***************************************************************************)
\* A variant of health_check that reports the last failure of /make-call.
health_check_degraded ==
    IF mc.pc = "done" /\ mc.response.status = 500
    THEN [status |-> 503, mimetype |-> "application/json",
          json |-> [status |-> "unhealthy", service |-> "InspireWorks IVR Demo"]]
    ELSE [status |-> 200, mimetype |-> "application/json",
          json |-> [status |-> "healthy", service |-> "InspireWorks IVR Demo"]]

health_check ==
    [status |-> 200, mimetype |-> "application/json",
     json |-> [status |-> "healthy", service |-> "InspireWorks IVR Demo"]]

(***************************************************************************)
(* The routes of the IVR and utility endpoints (the @app.route lines):     *)
(* the rule a path matches and the methods it accepts.  A path no rule     *)
(* matches is 404, a method the rule does not list is 405.                 *)
(***************************************************************************)
RouteOf(path) ==
    CASE path = <<"ivr", "welcome">> ->
            [endpoint |-> "ivr_welcome", methods |-> {"GET", "POST"}, lang |-> ""]
      [] path = <<"ivr", "language-handler">> ->
            [endpoint |-> "ivr_language_handler", methods |-> {"POST"}, lang |-> ""]
      [] Len(path) = 3 /\ SubSeq(path, 1, 2) = <<"ivr", "main-menu">> /\ path[3] # "" ->
            [endpoint |-> "ivr_main_menu", methods |-> {"GET", "POST"}, lang |-> path[3]]
      [] Len(path) = 3 /\ SubSeq(path, 1, 2) = <<"ivr", "menu-handler">> /\ path[3] # "" ->
            [endpoint |-> "ivr_menu_handler", methods |-> {"POST"}, lang |-> path[3]]
      [] path = <<"health">> ->
            [endpoint |-> "health_check", methods |-> {"GET"}, lang |-> ""]
      [] OTHER ->
            [endpoint |-> "", methods |-> {}, lang |-> ""]

Dispatch(r) ==
    LET rt == RouteOf(r.path) IN
    IF rt.endpoint = "" THEN [status |-> 404]
    ELSE IF r.method \notin rt.methods THEN [status |-> 405]
    ELSE CASE rt.endpoint = "ivr_welcome" -> ivr_welcome(r)
           [] rt.endpoint = "ivr_language_handler" -> ivr_language_handler(r)
           [] rt.endpoint = "ivr_main_menu" -> ivr_main_menu(r, rt.lang)
           [] rt.endpoint = "ivr_menu_handler" -> ivr_menu_handler(r, rt.lang)
           [] rt.endpoint = "health_check" -> health_check

(***************************************************************************)
(* Outbound call API: POST /make-call (src/app.py 99-144).                 *)
(*                                                                         *)
(* A JSON value is a record tagged by "t".  A request body is a content    *)
(* type and either no bytes at all or the text of one JSON value.          *)
(***************************************************************************)
None == [t |-> "null"]

JStr(s) == [t |-> "str", s |-> s]

JNum(n) == [t |-> "num", n |-> n]

JObj(fields) == [t |-> "obj", fields |-> fields]

NoBytes == [t |-> "nobytes"]

\* An exception: its class and str(e).
Exc(cls, msg) == [cls |-> cls, msg |-> msg]

\* The classes an "except" clause naming base catches.  In the provider's
\* SDK ValidationError and AuthenticationError derive from PlivoRestError.
IsInstance(cls, base) ==
    CASE base = "Exception" -> TRUE
      [] base = "PlivoRestError" ->
            cls \in {"PlivoRestError", "ValidationError", "AuthenticationError",
                     "PlivoServerError"}
      [] OTHER -> cls = base

\* request.get_json(): what it can do with a body, as the set of outcomes
\* over the framework versions the application runs on.  A body that is not
\* declared as JSON gives None or raises UnsupportedMediaType; a JSON body
\* that does not parse (no bytes) raises BadRequest.
get_json(body) ==
    IF body.ctype # "application/json"
    THEN {[raised |-> FALSE, value |-> None],
          [raised |-> TRUE, exc |-> Exc("UnsupportedMediaType", "415 Unsupported Media Type")]}
    ELSE IF body.data = NoBytes
    THEN {[raised |-> TRUE, exc |-> Exc("BadRequest", "400 Bad Request")]}
    ELSE {[raised |-> FALSE, value |-> body.data]}

\* data.get('target_number'): dict.get on a JSON object; any other Python
\* value decoded from JSON has no such method.
DictGet(data, key) ==
    IF data.t # "obj"
    THEN [raised |-> TRUE, exc |-> Exc("AttributeError", "object has no attribute 'get'")]
    ELSE [raised |-> FALSE, value |-> FormGet(data.fields, key, None)]

\* Python truth value of a decoded JSON value.
Truthy(v) ==
    CASE v.t = "null" -> FALSE
      [] v.t = "str" -> Len(v.s) > 0
      [] v.t = "num" -> v.n # 0
      [] OTHER -> TRUE

StartsWith(s, c) == Len(s) > 0 /\ s[1] = c

\* A variant that prefixes "+" without looking at the number.
FormatNumber_always(s) == <<"+">> \o s

\* "if not target_number.startswith('+'): target_number = '+' + target_number"
FormatNumber(s) == IF ~StartsWith(s, "+") THEN <<"+">> \o s ELSE s

\* url.rstrip('/') on a URL whose path is a sequence of segments.
RECURSIVE RStripSlash(_)
RStripSlash(path) ==
    IF Len(path) > 0 /\ path[Len(path)] = ""
    THEN RStripSlash(SubSeq(path, 1, Len(path) - 1))
    ELSE path

\* os.getenv('BASE_URL', request.url_root.rstrip('/'))
BaseUrl(cfg, r) ==
    IF cfg.BASE_URL # None
    THEN cfg.BASE_URL
    ELSE [host |-> r.host, path |-> RStripSlash(<<"">>)]

JsonResponse(status, json) ==
    [status |-> status, mimetype |-> "application/json", json |-> json]

Failure(status, prefix, detail) ==
    JsonResponse(status, [success |-> FALSE, error |-> [prefix |-> prefix, detail |-> detail]])

\* The three except clauses, in the order they are written.
ExceptClauses(e) ==
    IF IsInstance(e.cls, "ValidationError")
    THEN Failure(400, "Validation error: ", e.msg)
    ELSE IF IsInstance(e.cls, "PlivoRestError")
    THEN Failure(500, "Plivo API error: ", e.msg)
    ELSE Failure(500, "", e.msg)

\* plivo.RestClient(PLIVO_AUTH_ID, PLIVO_AUTH_TOKEN): the SDK refuses to build
\* a client without credentials.
RestClient(cfg) ==
    IF cfg.PLIVO_AUTH_ID = None \/ cfg.PLIVO_AUTH_TOKEN = None
    THEN [raised |-> TRUE, exc |-> Exc("AuthenticationError", "credentials missing")]
    ELSE [raised |-> FALSE]

\* make_call up to the point where client.calls.create is entered: either
\* the handler has returned (done) or the request to send is known.
\* js is the outcome of request.get_json().
make_call_begin(cfg, r, js) ==
    IF js.raised THEN [done |-> TRUE, response |-> ExceptClauses(js.exc)]
    ELSE LET got == DictGet(js.value, "target_number") IN
    IF got.raised THEN [done |-> TRUE, response |-> ExceptClauses(got.exc)]
    ELSE LET target_number == got.value IN
    IF ~Truthy(target_number)
    THEN [done |-> TRUE, response |-> Failure(400, "", "Target number is required")]
    ELSE IF target_number.t # "str"
    THEN [done |-> TRUE,
          response |-> ExceptClauses(Exc("AttributeError",
                                         "object has no attribute 'startswith'"))]
    ELSE LET client == RestClient(cfg)
             base_url == BaseUrl(cfg, r)
         IN IF client.raised
            THEN [done |-> TRUE, response |-> ExceptClauses(client.exc)]
            ELSE [done |-> FALSE,
                  create |-> [from_ |-> cfg.PLIVO_PHONE_NUMBER,
                              to_ |-> FormatNumber(target_number.s),
                              answer_url |-> [host |-> base_url.host,
                                              path |-> base_url.path \o <<"ivr", "welcome">>],
                              answer_method |-> "GET"]]

\* make_call from the return of client.calls.create: out is what the call
\* returned or raised, sent the request that was made.
make_call_end(sent, out) ==
    IF out.raised
    THEN ExceptClauses(out.exc)
    ELSE JsonResponse(200, [success |-> TRUE,
                            message |-> [prefix |-> "Call initiated to ",
                                         detail |-> sent.to_],
                            call_uuid |-> out.request_uuid])

\* A variant that goes back to client.calls.create after a failure.
AfterCreate_retry(out) == IF out.raised THEN "calling" ELSE "done"

\* Where the handler is once client.calls.create has returned or raised:
\* every path from there is a return.
AfterCreate(out) == "done"

(***************************************************************************)
(* The inputs of the model.                                                *)
(***************************************************************************)
Hosts == {"localhost:5000", "ivr.example.com"}

PublicBase == [host |-> "ivr.example.com", path |-> <<>>]

\* The environment the module is loaded in: the credentials are both set or
\* both missing, and BASE_URL is unset or names the public address.
Configs ==
    {[PLIVO_AUTH_ID |-> a, PLIVO_AUTH_TOKEN |-> a,
      PLIVO_PHONE_NUMBER |-> PLIVO_PHONE_NUMBER,
      ASSOCIATE_NUMBER |-> ASSOCIATE_NUMBER,
      BASE_URL |-> b] : a \in {None, JStr(<<"k">>)}, b \in {None, PublicBase}}

LangSegments == {"english", "spanish", "french", "English"}

DigitValues == {"1", "2", "3", "", "12", "*"}

\* A form with a Digits field, or without one.
Forms == {{}} \cup {{<<"Digits", d>>} : d \in DigitValues}

Paths ==
    {<<"ivr", "welcome">>, <<"ivr", "language-handler">>, <<"health">>,
     <<"ivr", "menu-handler">>}
    \cup {<<"ivr", "main-menu", l>> : l \in LangSegments}
    \cup {<<"ivr", "menu-handler", l>> : l \in LangSegments}

WebRequests == [method : {"GET", "POST"}, host : Hosts, path : Paths, form : Forms]

Chars == {"+", "1"}

Numbers == UNION {[1..n -> Chars] : n \in 0..MaxLen}

Bodies ==
    {[ctype |-> "application/json", data |-> d] :
        d \in {NoBytes, None, JNum(7), JObj({}),
               JObj({<<"target_number", None>>}),
               JObj({<<"target_number", JNum(0)>>}),
               JObj({<<"target_number", JNum(7)>>})}
              \cup {JObj({<<"target_number", JStr(s)>>}) : s \in Numbers}}
    \cup {[ctype |-> "text/plain", data |-> NoBytes]}

MakeCallRequests == [host : Hosts, body : Bodies]

\* What client.calls.create can return or raise.
CreateOutcomes ==
    {[raised |-> FALSE, request_uuid |-> u] : u \in {"uuid-a", "uuid-b"}}
    \cup {[raised |-> TRUE, exc |-> e] :
            e \in {Exc("ValidationError", "invalid destination"),
                   Exc("AuthenticationError", "401"),
                   Exc("PlivoServerError", "500"),
                   Exc("ConnectionError", "connection refused")}}

\* The keys a caller can press.
Keys == {"1", "2", "3"}

(***************************************************************************)
(* State.                                                                  *)
(***************************************************************************)
IdleMc ==
    [pc |-> "idle", request |-> None, sent |-> None, attempts |-> 0,
     out |-> None, response |-> None]

NoCall ==
    [state |-> "none", answer_url |-> None, answer_method |-> "",
     doc |-> <<>>, ip |-> 0, failed |-> 0, log |-> <<>>, end |-> "", bridge |-> ""]

Init ==
    /\ config \in Configs
    /\ req = None
    /\ resp = None
    /\ mc = IdleMc
    /\ call = NoCall
    /\ other = NoCall

(***************************************************************************)
(* An HTTP client sends one request to an IVR or utility endpoint.         *)
(***************************************************************************)
WebRequest(r) ==
    /\ req' = r
    /\ resp' = Dispatch(r)
    /\ UNCHANGED <<config, mc, call, other>>

(***************************************************************************)
(* POST /make-call.  The handler runs to its return, or to the blocking    *)
(* request to the provider.  The model follows one call at a time: an      *)
(* invocation begins when no call is being followed.                       *)
(***************************************************************************)
MakeCallBegin(r, js) ==
    /\ mc.pc \in {"idle", "done"}
    /\ call.state = "none"
    /\ js \in get_json(r.body)
    /\ LET b == make_call_begin(config, r, js) IN
       mc' = IF b.done
             THEN [pc |-> "done", request |-> r, sent |-> None, attempts |-> 0,
                   out |-> None, response |-> b.response]
             ELSE [pc |-> "calling", request |-> r, sent |-> b.create, attempts |-> 0,
                   out |-> None, response |-> None]
    /\ call' = NoCall
    /\ UNCHANGED <<config, req, resp, other>>

\* client.calls.create returns or raises, and the handler returns.  A request
\* the provider accepted becomes a call to the destination.
MakeCallCreate(out) ==
    /\ mc.pc = "calling"
    /\ mc' = [mc EXCEPT !.attempts = @ + 1,
                        !.out = out,
                        !.pc = AfterCreate(out),
                        !.response = IF AfterCreate(out) = "done"
                                     THEN make_call_end(mc.sent, out)
                                     ELSE None]
    /\ call' = IF out.raised
               THEN call
               ELSE [NoCall EXCEPT !.state = "ringing",
                                   !.answer_url = mc.sent.answer_url,
                                   !.answer_method = mc.sent.answer_method]
    /\ UNCHANGED <<config, req, resp, other>>

(***************************************************************************)
(* The provider drives the call: it fetches a document, executes its       *)
(* elements in order and requests the next document where one tells it to. *)
(***************************************************************************)
\* The provider requests url with method, and starts on the document it gets;
\* anything but a document ends the call.
Fetch(c, method, url, form) ==
    LET r == [method |-> method, host |-> url.host, path |-> url.path, form |-> form]
        rsp == Dispatch(r)
    IN IF rsp.status = 200 /\ "doc" \in DOMAIN rsp
       THEN [c EXCEPT !.state = "exec", !.doc = rsp.doc, !.ip = 1, !.failed = 0,
                      !.log = Append(@, r)]
       ELSE [c EXCEPT !.state = "ended", !.end = "error", !.log = Append(@, r)]

\* The next element, or the end of a document that does not hang up.
Advance(c) ==
    IF c.ip + 1 > Len(c.doc)
    THEN [c EXCEPT !.state = "ended", !.end = "eof"]
    ELSE [c EXCEPT !.ip = @ + 1, !.failed = 0]

Current == call.doc[call.ip]

Executing(tag) ==
    /\ call.state = "exec"
    /\ call.ip \in 1..Len(call.doc)
    /\ Current.tag = tag

\* The callee answers: the provider requests the answer URL.
Answer ==
    /\ call.state = "ringing"
    /\ call' = Fetch(call, call.answer_method, call.answer_url, {})
    /\ UNCHANGED <<config, req, resp, mc, other>>

NoAnswer ==
    /\ call.state = "ringing"
    /\ call' = [call EXCEPT !.state = "ended", !.end = "noanswer"]
    /\ UNCHANGED <<config, req, resp, mc, other>>

ProviderSpeak ==
    /\ Executing("Speak")
    /\ call' = Advance(call)
    /\ UNCHANGED <<config, req, resp, mc, other>>

ProviderPlay ==
    /\ Executing("Play")
    /\ call' = Advance(call)
    /\ UNCHANGED <<config, req, resp, mc, other>>

\* The bridge attempt ends: answered and ended, or not answered in time.
ProviderDial(how) ==
    /\ Executing("Dial")
    /\ call' = [Advance(call) EXCEPT !.bridge = how]
    /\ UNCHANGED <<config, req, resp, mc, other>>

\* The keys outside {1, 2} that were posted in the requests of a call.
InvalidPresses(log) ==
    Cardinality({i \in 1..Len(log) :
                    log[i].form # {} /\ FormGet(log[i].form, "Digits", "") \notin {"1", "2"}})

\* The caller presses k during digit collection and the provider posts it to
\* the action.  The handlers do not rely on the provider holding back a key
\* outside validDigits, so the provider may post any key; a caller presses
\* such a key a bounded number of times.
ProviderDigits(k) ==
    /\ Executing("GetDigits")
    /\ k \notin Current.validDigits => InvalidPresses(call.log) < MaxInvalid
    /\ call' = Fetch(call, Current.method, Current.action, {<<"Digits", k>>})
    /\ UNCHANGED <<config, req, resp, mc, other>>

\* An attempt of digit collection fails (no key within the timeout, or a key
\* the provider refuses): the prompt is replayed, and once the retries are
\* used up control falls through to the next element.
ProviderNoInput ==
    /\ Executing("GetDigits")
    /\ call' = IF call.failed + 1 < Current.retries
               THEN [call EXCEPT !.failed = @ + 1]
               ELSE Advance(call)
    /\ UNCHANGED <<config, req, resp, mc, other>>

ProviderRedirect ==
    /\ Executing("Redirect")
    /\ call' = Fetch(call, Current.method, Current.url, {})
    /\ UNCHANGED <<config, req, resp, mc, other>>

ProviderHangup ==
    /\ Executing("Hangup")
    /\ call' = [call EXCEPT !.state = "ended", !.end = "hangup"]
    /\ UNCHANGED <<config, req, resp, mc, other>>

CallerHangup ==
    /\ call.state = "exec"
    /\ call' = [call EXCEPT !.state = "ended", !.end = "caller"]
    /\ UNCHANGED <<config, req, resp, mc, other>>

\* A call that has ended is no longer followed.
CallOver ==
    /\ call.state = "ended"
    /\ call' = NoCall
    /\ UNCHANGED <<config, req, resp, mc, other>>

Provider ==
    \/ Answer
    \/ NoAnswer
    \/ ProviderSpeak
    \/ ProviderPlay
    \/ \E how \in {"answered", "timeout"} : ProviderDial(how)
    \/ \E k \in Keys : ProviderDigits(k)
    \/ ProviderNoInput
    \/ ProviderRedirect
    \/ ProviderHangup

(***************************************************************************)
(* A second call at the same time.  The provider takes the same steps on   *)
(* it; its caller presses only keys of validDigits, or none.               *)
(***************************************************************************)
CallSteps(c) ==
    IF c.state = "ringing"
    THEN {Fetch(c, c.answer_method, c.answer_url, {}),
          [c EXCEPT !.state = "ended", !.end = "noanswer"]}
    ELSE IF c.state = "exec" /\ c.ip \in 1..Len(c.doc)
    THEN LET e == c.doc[c.ip] IN
         {[c EXCEPT !.state = "ended", !.end = "caller"]}
         \cup CASE e.tag \in {"Speak", "Play"} -> {Advance(c)}
                [] e.tag = "Dial" ->
                      {[Advance(c) EXCEPT !.bridge = how] : how \in {"answered", "timeout"}}
                [] e.tag = "GetDigits" ->
                      {Fetch(c, e.method, e.action, {<<"Digits", k>>}) :
                           k \in Keys \cap e.validDigits}
                      \cup {IF c.failed + 1 < e.retries
                            THEN [c EXCEPT !.failed = @ + 1]
                            ELSE Advance(c)}
                [] e.tag = "Redirect" -> {Fetch(c, e.method, e.url, {})}
                [] e.tag = "Hangup" -> {[c EXCEPT !.state = "ended", !.end = "hangup"]}
                [] OTHER -> {}
    ELSE {}

OtherStep ==
    /\ \E n \in CallSteps(other) : other' = n
    /\ UNCHANGED <<config, req, resp, mc, call>>

\* Two calls the provider has accepted, both to be answered at the answer URL
\* make_call gave for them.
Placed(cfg) ==
    [NoCall EXCEPT !.state = "ringing",
                   !.answer_url = [host |-> BaseUrl(cfg, [host |-> "localhost:5000"]).host,
                                   path |-> BaseUrl(cfg, [host |-> "localhost:5000"]).path
                                            \o <<"ivr", "welcome">>],
                   !.answer_method = "GET"]

ConcInit ==
    /\ config \in {c \in Configs : c.PLIVO_AUTH_ID # None}
    /\ req = None
    /\ resp = None
    /\ mc = IdleMc
    /\ call = Placed(config)
    /\ other = Placed(config)

(***************************************************************************)
(* Specifications.                                                         *)
(***************************************************************************)
\* Any client, one request at a time, against the stateless endpoints.
WebNext == \E r \in WebRequests : WebRequest(r)

WebSpec == Init /\ [][WebNext]_vars

\* The outbound call API and the call the provider drives from it.
Next ==
    \/ \E r \in MakeCallRequests : \E js \in get_json(r.body) : MakeCallBegin(r, js)
    \/ \E out \in CreateOutcomes : MakeCallCreate(out)
    \/ Provider
    \/ CallerHangup
    \/ CallOver

Spec == Init /\ [][Next]_vars

\* The provider does not stall: it takes the next step of a call in progress.
FairSpec == Spec /\ WF_vars(Provider)

\* Two calls in progress, their requests interleaved in every order.
ConcNext ==
    \/ Provider
    \/ CallerHangup
    \/ OtherStep

ConcSpec == ConcInit /\ [][ConcNext]_vars

\* The utility endpoint and the failure paths of the IVR endpoints, requested
\* while /make-call invocations begin, wait for the provider and return.
ProbeRequests ==
    {r \in WebRequests :
        \/ r.path = <<"health">> /\ r.form = {}
        \/ r.method = "POST" /\ r.form = {<<"Digits", "3">>} /\ r.host = "ivr.example.com"}

HealthNext ==
    \/ \E r \in MakeCallRequests : \E js \in get_json(r.body) : MakeCallBegin(r, js)
    \/ \E out \in CreateOutcomes : MakeCallCreate(out)
    \/ NoAnswer
    \/ CallOver
    \/ \E r \in ProbeRequests : WebRequest(r)

HealthSpec == Init /\ [][HealthNext]_vars

(***************************************************************************)
(* Properties of the handlers, over every request of WebSpec.              *)
(***************************************************************************)
\* The request req reached the endpoint (its route and method matched).
Reached(endpoint) ==
    /\ req # None
    /\ RouteOf(req.path).endpoint = endpoint
    /\ req.method \in RouteOf(req.path).methods

\* The value the handler sees for Digits: "" when the field is absent.
ReqDigit == IF req.form = {} THEN "" ELSE (CHOOSE p \in req.form : TRUE)[2]

\* The language segment of the path of req.
ReqLang == req.path[3]

\* The language a main-menu endpoint works in for a path segment.
Effective(l) == IF l = "spanish" THEN "spanish" ELSE "english"

PollyVoice == [english |-> "Polly.Joanna", spanish |-> "Polly.Conchita"]

Locale == [english |-> "en-US", spanish |-> "es-ES"]

Tags(doc) == [i \in 1..Len(doc) |-> doc[i].tag]

\* The document a GET of url is answered with.
Served(url) == Dispatch([method |-> "GET", host |-> url.host, path |-> url.path, form |-> {}])

\* C1: a Digits value other than "1" and "2" (the empty string and an absent
\* field included) makes each handler answer 200 with exactly speak(invalid
\* input), redirect(GET) back to the responder of its own step: the
\* language handler to /ivr/welcome, the menu handler to the main menu of its
\* language, whose document is the one that step showed before.
C1_InvalidDigitReprompts ==
    /\ (Reached("ivr_language_handler") /\ ReqDigit \notin {"1", "2"}) =>
          /\ resp.status = 200
          /\ resp.doc = << Speak(MESSAGES.invalid_input.english, "Polly.Joanna", "en-US"),
                           [tag |-> "Redirect", method |-> "GET",
                            url |-> [host |-> req.host, path |-> <<"ivr", "welcome">>]] >>
    /\ (Reached("ivr_menu_handler") /\ ReqDigit \notin {"1", "2"}) =>
          LET l == Effective(ReqLang) IN
          /\ resp.status = 200
          /\ resp.doc = << Speak(MESSAGES.invalid_input[l], PollyVoice[l], Locale[l]),
                           [tag |-> "Redirect", method |-> "GET",
                            url |-> [host |-> req.host, path |-> <<"ivr", "main-menu", l>>]] >>
          /\ Served(resp.doc[2].url)
               = Served([host |-> req.host, path |-> <<"ivr", "main-menu", ReqLang>>])

C1_Witness ==
    /\ Reached("ivr_menu_handler")
    /\ ReqLang = "spanish"
    /\ req.form = {}
    /\ resp.status = 200
    /\ Tags(resp.doc) = <<"Speak", "Redirect">>

\* C2: at the language handler "1" gives a document that is only a redirect
\* to the main menu in english, "2" only a redirect to the main menu in
\* spanish, and no other Digits value gives a redirect to a main-menu
\* endpoint.
C2_LanguageRouting ==
    Reached("ivr_language_handler") =>
        /\ ReqDigit = "1" =>
              resp.doc = << [tag |-> "Redirect", method |-> "GET",
                             url |-> [host |-> req.host,
                                      path |-> <<"ivr", "main-menu", "english">>]] >>
        /\ ReqDigit = "2" =>
              resp.doc = << [tag |-> "Redirect", method |-> "GET",
                             url |-> [host |-> req.host,
                                      path |-> <<"ivr", "main-menu", "spanish">>]] >>
        /\ ReqDigit \notin {"1", "2"} =>
              \A i \in 1..Len(resp.doc) :
                  resp.doc[i].tag = "Redirect" =>
                      RouteOf(resp.doc[i].url.path).endpoint
                          \notin {"ivr_main_menu", "ivr_menu_handler"}

C2_Witness ==
    /\ Reached("ivr_language_handler")
    /\ ReqDigit = "2"
    /\ Tags(resp.doc) = <<"Redirect">>
    /\ resp.doc[1].url.path[3] = "spanish"

\* C3: at the menu handler, in every language, "1" gives speak(now playing),
\* play(the audio of the language), speak(goodbye), hangup in that order, and
\* "2" gives speak(connecting) and then a dial to the associate number.
C3_MenuActions ==
    Reached("ivr_menu_handler") =>
        LET l == Effective(ReqLang) IN
        /\ ReqDigit = "1" =>
              /\ Tags(resp.doc) = <<"Speak", "Play", "Speak", "Hangup">>
              /\ resp.doc[1] = Speak(MESSAGES.playing_audio[l], PollyVoice[l], Locale[l])
              /\ resp.doc[2].url = AUDIO_FILES[l]
              /\ resp.doc[3] = Speak(MESSAGES.goodbye[l], PollyVoice[l], Locale[l])
        /\ ReqDigit = "2" =>
              /\ \E i \in 2..Len(resp.doc) :
                    /\ resp.doc[i].tag = "Dial"
                    /\ resp.doc[i].children
                         = << [tag |-> "Number", number |-> ASSOCIATE_NUMBER] >>
                    /\ resp.doc[i - 1]
                         = Speak(MESSAGES.connecting[l], PollyVoice[l], Locale[l])
              /\ \A i \in 1..Len(resp.doc) : resp.doc[i].tag # "Play"

C3_Witness ==
    /\ Reached("ivr_menu_handler")
    /\ ReqLang = "spanish"
    /\ ReqDigit = "1"
    /\ Tags(resp.doc) = <<"Speak", "Play", "Speak", "Hangup">>

\* C8: the main-menu responder answers a language segment outside
\* {english, spanish} with exactly the response it gives for english: the
\* english prompt, voice and locale, and the menu handler of english as the
\* action of the digit collection.
C8_UnknownLanguageIsPrimary ==
    (Reached("ivr_main_menu") /\ ReqLang \notin {"english", "spanish"}) =>
        /\ resp = Dispatch([req EXCEPT !.path = <<"ivr", "main-menu", "english">>])
        /\ resp.status = 200
        /\ resp.doc[1].action = [host |-> req.host,
                                 path |-> <<"ivr", "menu-handler", "english">>]
        /\ resp.doc[1].children
             = << Speak(MESSAGES.main_menu.english, "Polly.Joanna", "en-US") >>
        /\ resp.doc[2].voice = "Polly.Joanna" /\ resp.doc[2].language = "en-US"

C8_Witness ==
    /\ Reached("ivr_main_menu")
    /\ ReqLang = "french"
    /\ resp.status = 200
    /\ Tags(resp.doc) = <<"GetDigits", "Speak", "Hangup">>

(***************************************************************************)
(* Properties of /make-call, over the invocations of Spec.                 *)
(***************************************************************************)
\* The invocation in mc has returned.
Returned == mc.pc = "done"

\* The target_number of a request body: None when the body carries no JSON
\* object or the object has no such field.
TargetOf(body) ==
    IF body.data.t = "obj"
    THEN IF \E p \in body.data.fields : p[1] = "target_number"
         THEN (CHOOSE p \in body.data.fields : p[1] = "target_number")[2]
         ELSE None
    ELSE None

Target == TargetOf(mc.request.body)

ErrorText == mc.response.json.error

\* C4: with an empty body /make-call answers 400, success = false, an error
\* text saying the target number is required, and sends nothing to the
\* provider.
C4_EmptyBodyIs400 ==
    (Returned /\ mc.request.body.data = NoBytes) =>
        /\ mc.response.status = 400
        /\ mc.response.json.success = FALSE
        /\ ErrorText.detail = "Target number is required"
        /\ mc.attempts = 0
        /\ mc.sent = None

\* C5: an invocation that has returned is one of: success (200, the
\* provider's request identifier as call_uuid); InputError (400) exactly when
\* target_number is missing or empty; ValidationError (400, the provider's
\* message) when the provider rejected the parameters; RemoteServiceError
\* (500) for another failure of the provider or the network.  A failure has
\* success = false and a non-empty text, and a validation failure is not 500.
C5_FourOutcomes ==
    Returned =>
        LET missing == Target \in {None, JStr(<<>>)}
            rejected == mc.out # None /\ mc.out.raised /\ mc.out.exc.cls = "ValidationError"
            failed == mc.response.json.success = FALSE
                      /\ <<ErrorText.prefix, ErrorText.detail>> # <<"", "">>
        IN /\ \/ /\ mc.response.status = 200
                 /\ mc.response.json.success = TRUE
                 /\ mc.out # None /\ ~mc.out.raised
                 /\ mc.response.json.call_uuid = mc.out.request_uuid
              \/ /\ mc.response.status = 400 /\ failed
                 /\ missing /\ mc.out = None
              \/ /\ mc.response.status = 400 /\ failed
                 /\ ~missing /\ rejected
                 /\ ErrorText.detail = mc.out.exc.msg
              \/ /\ mc.response.status = 500 /\ failed
                 /\ ~missing /\ ~rejected
                 /\ Target.t = "str"
           /\ missing => mc.response.status = 400
           /\ rejected => mc.response.status # 500

\* C6: the request to the provider is made at most once in an invocation,
\* and exactly once in an invocation that got as far as making it, whether
\* it succeeded or failed: once its outcome is known the handler has
\* returned, and nothing is attempted again.
C6_OneAttempt ==
    /\ mc.attempts <= 1
    /\ mc.pc = "calling" => mc.attempts = 0 /\ mc.out = None
    /\ mc.out # None => Returned /\ mc.attempts = 1
    /\ (Returned /\ mc.sent # None) => mc.attempts = 1 /\ mc.out # None

C6_Witness ==
    /\ Returned
    /\ mc.out # None /\ mc.out.raised /\ mc.out.exc.cls = "ConnectionError"
    /\ mc.attempts = 1
    /\ mc.response.status = 500

\* C7: for a non-empty target_number string s the request to the provider
\* carries a destination that starts with "+": s itself when s starts with
\* "+", "+" followed by s otherwise; formatting the destination again
\* changes nothing, and the characters of s are kept as they are.
C7_PlusPrefix ==
    /\ mc.sent # None =>
          LET s == Target.s
              to == mc.sent.to_
          IN /\ Len(s) > 0
             /\ to[1] = "+"
             /\ s[1] = "+" => to = s
             /\ s[1] # "+" => to = <<"+">> \o s
             /\ SubSeq(to, Len(to) - Len(s) + 1, Len(to)) = s
             /\ FormatNumber(to) = to
    /\ (mc.pc # "idle" /\ config.PLIVO_AUTH_ID # None /\ mc.request.body.ctype = "application/json"
        /\ Target.t = "str" /\ Target # JStr(<<>>)) => mc.sent # None

C7_Witness ==
    /\ mc.sent # None
    /\ Target = JStr(<<"1", "+", "1">>)
    /\ mc.sent.to_ = <<"+", "1", "+", "1">>
    /\ mc.attempts = 1

(***************************************************************************)
(* Properties of the call the provider drives.                             *)
(***************************************************************************)
Ended == call.state = "ended"

\* The call is executing the document of a menu step (a responder's).
AtMenuStep ==
    /\ call.state = "exec"
    /\ Len(call.doc) > 0
    /\ call.doc[1].tag = "GetDigits"

\* Digit collection gave up and control went on to what follows it.
FellThrough == AtMenuStep /\ call.ip > 1

LastRequest == call.log[Len(call.log)]

\* The language of the menu step the call is at.
StepLang ==
    IF LastRequest.path = <<"ivr", "welcome">> THEN "english" ELSE LastRequest.path[3]

\* C9: the document of either menu step is the digit collection followed by
\* speak(no input, goodbye) and hangup.  Once digit collection has given up,
\* the call only moves forward in that document or ends, with no further
\* request to any endpoint, and it does end.
C9_NoInputFallback ==
    /\ [](AtMenuStep =>
            /\ StepLang \in {"english", "spanish"}
            /\ Tail(call.doc)
                 = << Speak(MESSAGES.no_input[StepLang] \o " " \o MESSAGES.goodbye[StepLang],
                            PollyVoice[StepLang], Locale[StepLang]),
                      [tag |-> "Hangup"] >>)
    /\ [][FellThrough =>
            /\ call'.log = call.log
            /\ \/ call'.state = "ended"
               \/ /\ call'.state = "exec"
                  /\ call'.doc = call.doc
                  /\ call'.ip = call.ip + 1]_vars
    /\ (FellThrough ~> Ended)

C9_Witness ==
    /\ Ended
    /\ call.end = "hangup"
    /\ call.doc[1].tag = "GetDigits"
    /\ call.ip = 3
    /\ Len(call.log) = 3
    /\ LastRequest.path = <<"ivr", "main-menu", "spanish">>

EndpointOf(e) == RouteOf(e.path).endpoint

\* The Digits value of a logged request, "none" for a request without one.
DigitOf(e) == IF e.form = {} THEN "none" ELSE (CHOOSE p \in e.form : TRUE)[2]

Has(doc, tag) == \E i \in 1..Len(doc) : doc[i].tag = tag

\* C10: in a call that starts at the answer URL, the main menu of a language
\* is requested only after the language handler was posted "1" (english) or
\* "2" (spanish); a handler is posted a digit only from the document of its
\* own step; and the play, dial and main-menu re-prompt documents are the
\* answers to a digit posted to the menu handler.
C10_DigitsDriveStates ==
    LET log == call.log IN
    /\ Len(log) > 0 => EndpointOf(log[1]) = "ivr_welcome"
    /\ \A i \in 1..Len(log) :
          /\ EndpointOf(log[i]) = "ivr_main_menu" =>
                \E j \in 1..(i - 1) :
                    /\ EndpointOf(log[j]) = "ivr_language_handler"
                    /\ log[j].method = "POST"
                    /\ \/ log[i].path[3] = "english" /\ DigitOf(log[j]) = "1"
                       \/ log[i].path[3] = "spanish" /\ DigitOf(log[j]) = "2"
          /\ EndpointOf(log[i]) = "ivr_language_handler" =>
                i > 1 /\ EndpointOf(log[i - 1]) = "ivr_welcome" /\ DigitOf(log[i]) \in Keys
          /\ EndpointOf(log[i]) = "ivr_menu_handler" =>
                /\ i > 1 /\ EndpointOf(log[i - 1]) = "ivr_main_menu"
                /\ log[i - 1].path[3] = log[i].path[3]
                /\ DigitOf(log[i]) \in Keys
    /\ (call.state = "exec" /\ Has(call.doc, "Play")) =>
          EndpointOf(LastRequest) = "ivr_menu_handler" /\ DigitOf(LastRequest) = "1"
    /\ (call.state = "exec" /\ Has(call.doc, "Dial")) =>
          EndpointOf(LastRequest) = "ivr_menu_handler" /\ DigitOf(LastRequest) = "2"
    /\ (call.state = "exec" /\ Tags(call.doc) = <<"Speak", "Redirect">>
        /\ EndpointOf(call.doc[2].url) = "ivr_main_menu") =>
          /\ EndpointOf(LastRequest) = "ivr_menu_handler"
          /\ DigitOf(LastRequest) \in Keys \ {"1", "2"}

C10_Witness ==
    /\ call.state = "exec"
    /\ Has(call.doc, "Play")
    /\ Len(call.log) = 6
    /\ DigitOf(call.log[2]) = "3"
    /\ call.log[5].path = <<"ivr", "main-menu", "spanish">>

(***************************************************************************)
(* Properties of two calls in progress at the same time (ConcSpec).        *)
(***************************************************************************)
LastOf(c) == c.log[Len(c.log)]

Served200(c) == Len(c.log) > 0 /\ c.end # "error"

\* C11: whatever the two calls did before and in whatever order their
\* requests were handled, two requests that are the same (endpoint, language
\* segment, Digits) got the same document, so a call gets the documents it
\* gets when it runs alone; and no step changes the configuration.
C11_Stateless ==
    /\ []((Served200(call) /\ Served200(other) /\ LastOf(call) = LastOf(other))
            => call.doc = other.doc)
    /\ [][config' = config]_vars

C11_Witness ==
    /\ call.state = "exec" /\ other.state = "ended" /\ other.end = "hangup"
    /\ Len(call.log) = 5 /\ Len(other.log) = 3
    /\ LastOf(call).path = <<"ivr", "main-menu", "spanish">>
    /\ LastOf(other) = LastOf(call)
    /\ call.doc = other.doc

(***************************************************************************)
(* Properties of the documents that act on a menu choice.                  *)
(***************************************************************************)
\* The call is executing the document for "1" (play) or "2" (dial).
InAction == call.state = "exec" /\ (Has(call.doc, "Play") \/ Has(call.doc, "Dial"))

\* C12: the documents of the menu handler for "1" and "2" have no redirect
\* and end with speak(goodbye), hangup, the dial ringing for 30 seconds at
\* most.  Once the call is in such a document it only moves forward in it or
\* ends, without a further request; when the document ends the call the
\* goodbye has been passed; and the call does end.
C12_ActionEndsCall ==
    /\ [](InAction =>
            LET l == LastRequest.path[3] IN
            /\ ~Has(call.doc, "Redirect")
            /\ Len(call.doc) = 4
            /\ call.doc[2].tag = "Dial" => call.doc[2].timeout = 30
            /\ call.doc[3] = Speak(MESSAGES.goodbye[l], PollyVoice[l], Locale[l])
            /\ call.doc[4] = [tag |-> "Hangup"])
    /\ [][InAction =>
            /\ call'.log = call.log
            /\ \/ call'.state = "ended"
               \/ /\ call'.state = "exec"
                  /\ call'.doc = call.doc
                  /\ call'.ip = call.ip + 1]_vars
    /\ []((Ended /\ call.end = "hangup" /\ (Has(call.doc, "Play") \/ Has(call.doc, "Dial")))
            => call.ip = 4)
    /\ (InAction ~> Ended)

C12_Witness ==
    /\ Ended
    /\ call.end = "hangup"
    /\ Has(call.doc, "Dial")
    /\ call.bridge = "timeout"
    /\ call.ip = 4
    /\ LastRequest.path = <<"ivr", "menu-handler", "spanish">>

(***************************************************************************)
(* Properties of the utility endpoint (HealthSpec).                        *)
(***************************************************************************)
\* C13: GET /health is answered 200 with {status: healthy, service: the
\* service's name}, whatever /make-call invocation is waiting for the
\* provider or has returned, with success or with an error, and whatever
\* request was handled before.
C13_HealthFixed ==
    (req # None /\ req.method = "GET" /\ req.path = <<"health">>) =>
        resp = [status |-> 200, mimetype |-> "application/json",
                json |-> [status |-> "healthy", service |-> "InspireWorks IVR Demo"]]

\* /health answered 200 where an invocation has failed at the provider.
C13_Witness ==
    /\ req # None /\ req.method = "GET" /\ req.path = <<"health">>
    /\ resp.status = 200
    /\ mc.pc = "done" /\ mc.response.status = 500 /\ mc.attempts = 1

(***************************************************************************)
(* Properties of the documents, over every request of WebSpec.             *)
(***************************************************************************)
\* The digit collection both responders ask for, with its action.
Collect(d, action) ==
    /\ d.tag = "GetDigits"
    /\ d.numDigits = 1
    /\ d.timeout = 10
    /\ d.retries = 2
    /\ d.validDigits = {"1", "2"}
    /\ d.method = "POST"
    /\ d.action = action
    /\ "POST" \in RouteOf(d.action.path).methods

\* C14: whatever the request, the language-select responder asks for one
\* digit of {1, 2} with timeout 10 and retries 2 and posts it to the language
\* handler, and the main-menu responder asks for the same and posts it to
\* the menu handler of its own language.
C14_DigitCollection ==
    /\ Reached("ivr_welcome") =>
          /\ Collect(resp.doc[1], [host |-> req.host, path |-> <<"ivr", "language-handler">>])
          /\ RouteOf(resp.doc[1].action.path).endpoint = "ivr_language_handler"
    /\ Reached("ivr_main_menu") =>
          /\ Collect(resp.doc[1], [host |-> req.host,
                                   path |-> <<"ivr", "menu-handler", Effective(ReqLang)>>])
          /\ RouteOf(resp.doc[1].action.path).endpoint = "ivr_menu_handler"
          /\ RouteOf(resp.doc[1].action.path).lang = Effective(ReqLang)

C14_Witness ==
    /\ Reached("ivr_main_menu")
    /\ ReqLang = "spanish"
    /\ req.method = "POST"
    /\ resp.doc[1].action.path = <<"ivr", "menu-handler", "spanish">>
    /\ resp.doc[1].retries = 2

\* The response to req is a document.
IsDocument == req # None /\ resp.status = 200 /\ "doc" \in DOMAIN resp

Final(e) == e.tag \in {"Hangup", "Redirect"}

\* C15: a document of any IVR endpoint, for every language segment and Digits
\* value, has a hangup or a redirect as its last element and nowhere else;
\* the no-input path of a responder and the invalid-input answer of a handler
\* speak before that last element.
C15_DocumentsEnd ==
    IsDocument =>
        LET doc == resp.doc
            n == Len(resp.doc)
        IN /\ n >= 1
           /\ Final(doc[n])
           /\ \A i \in 1..(n - 1) : ~Final(doc[i])
           /\ doc[1].tag = "GetDigits" =>
                 /\ n = 3
                 /\ doc[2].tag = "Speak"
                 /\ doc[3].tag = "Hangup"
           /\ ((Reached("ivr_language_handler") \/ Reached("ivr_menu_handler"))
               /\ ReqDigit \notin {"1", "2"}) =>
                 /\ n = 2
                 /\ doc[1].tag = "Speak"
                 /\ doc[1].content \in {MESSAGES.invalid_input.english,
                                        MESSAGES.invalid_input.spanish}

C15_Witness ==
    /\ IsDocument
    /\ Reached("ivr_menu_handler")
    /\ ReqDigit = "2"
    /\ Tags(resp.doc) = <<"Speak", "Dial", "Speak", "Hangup">>

(***************************************************************************)
(* Properties of the call once it is in a main menu (Spec).                *)
(***************************************************************************)
MenuLevel(e) == EndpointOf(e) \in {"ivr_main_menu", "ivr_menu_handler"}

\* What is said in language l.
Said(l) ==
    {MESSAGES.main_menu[l], MESSAGES.no_input[l] \o " " \o MESSAGES.goodbye[l],
     MESSAGES.playing_audio[l], MESSAGES.connecting[l], MESSAGES.invalid_input[l],
     MESSAGES.goodbye[l]}

InLanguage(e, l) ==
    /\ e.tag = "Speak" =>
          e.voice = PollyVoice[l] /\ e.language = Locale[l] /\ e.content \in Said(l)
    /\ e.tag = "Redirect" => e.url.path = <<"ivr", "main-menu", l>>
    /\ e.tag = "Play" => e.url = AUDIO_FILES[l]
    /\ e.tag = "GetDigits" =>
          /\ e.action.path = <<"ivr", "menu-handler", l>>
          /\ \A k \in 1..Len(e.children) :
                /\ e.children[k].tag = "Speak"
                /\ e.children[k].voice = PollyVoice[l]
                /\ e.children[k].language = Locale[l]
                /\ e.children[k].content \in Said(l)

\* C16: after the request that enters the main menu of a language L, every
\* request of the call is to the main menu or the menu handler of L, never
\* to the language step, and every document it gets speaks L's messages with
\* L's voice and locale and names L in its action and its redirect.
C16_LanguageIsKept ==
    LET log == call.log IN
    /\ \A i \in 1..Len(log) : \A j \in i..Len(log) :
          MenuLevel(log[i]) =>
              /\ MenuLevel(log[j])
              /\ log[j].path[3] = log[i].path[3]
              /\ log[j].path[3] \in {"english", "spanish"}
    /\ (Len(log) > 0 /\ MenuLevel(LastRequest) /\ call.end # "error") =>
          \A k \in 1..Len(call.doc) : InLanguage(call.doc[k], LastRequest.path[3])

C16_Witness ==
    /\ call.state = "exec"
    /\ Len(call.log) = 6
    /\ call.log[3].path = <<"ivr", "main-menu", "spanish">>
    /\ DigitOf(call.log[4]) = "3"
    /\ call.log[5].path = <<"ivr", "main-menu", "spanish">>
    /\ Has(call.doc, "Dial")

(***************************************************************************)
(* Properties of the callbacks handed to the provider (Spec).              *)
(***************************************************************************)
Accepts(url, method) ==
    /\ RouteOf(url.path).endpoint # ""
    /\ method \in RouteOf(url.path).methods

\* C17: the answer URL of the outbound call is the language-select responder
\* with GET; every action of a digit collection is a handler endpoint with
\* POST and every redirect a responder endpoint with GET, each a method the
\* endpoint accepts; no request of a call is refused and no call ends on an
\* error answer.
C17_CallbacksAccepted ==
    /\ mc.sent # None =>
          /\ mc.sent.answer_method = "GET"
          /\ RouteOf(mc.sent.answer_url.path).endpoint = "ivr_welcome"
          /\ Accepts(mc.sent.answer_url, mc.sent.answer_method)
    /\ \A k \in 1..Len(call.doc) :
          LET e == call.doc[k] IN
          /\ e.tag = "GetDigits" =>
                /\ RouteOf(e.action.path).endpoint
                     \in {"ivr_language_handler", "ivr_menu_handler"}
                /\ e.method = "POST"
                /\ Accepts(e.action, e.method)
          /\ e.tag = "Redirect" =>
                /\ RouteOf(e.url.path).endpoint \in {"ivr_welcome", "ivr_main_menu"}
                /\ e.method = "GET"
                /\ Accepts(e.url, e.method)
    /\ \A i \in 1..Len(call.log) :
          call.log[i].method \in RouteOf(call.log[i].path).methods
    /\ call.end # "error"

C17_Witness ==
    /\ mc.sent # None
    /\ call.state = "exec"
    /\ Len(call.log) = 4
    /\ call.log[4].method = "POST"
    /\ Tags(call.doc) = <<"Speak", "Redirect">>
    /\ call.doc[2].url.path = <<"ivr", "main-menu", "english">>

(***************************************************************************)
(* Termination of a call (FairSpec).                                       *)
(***************************************************************************)
\* The last request of the call posted a key outside {1, 2}.
InvalidLast ==
    /\ Len(call.log) > 0
    /\ LastRequest.form # {}
    /\ DigitOf(LastRequest) \notin {"1", "2"}

\* C18: whatever the number of invalid keys so far, an invalid key is
\* answered with the re-prompt (speak, redirect) and never with a hangup;
\* the requests of a call are at most four plus two for each invalid key;
\* a call the provider ends, ends on the hangup of a menu step's no-input
\* fallback or of the document for digit 1 or 2; and under weak fairness of
\* the provider's steps, with finitely many invalid keys, every call ends.
C18_CallsEnd ==
    /\ []((call.state = "exec" /\ InvalidLast) =>
            /\ Tags(call.doc) = <<"Speak", "Redirect">>
            /\ RouteOf(call.doc[2].url.path).endpoint \in {"ivr_welcome", "ivr_main_menu"})
    /\ [](Len(call.log) <= 4 + 2 * InvalidPresses(call.log))
    /\ []((Ended /\ call.end \notin {"caller", "noanswer"}) =>
            /\ call.end = "hangup"
            /\ call.doc[call.ip].tag = "Hangup"
            /\ \/ /\ call.doc[1].tag = "GetDigits"
                  /\ call.ip = 3
                  /\ EndpointOf(LastRequest) \in {"ivr_welcome", "ivr_main_menu"}
               \/ /\ EndpointOf(LastRequest) = "ivr_menu_handler"
                  /\ DigitOf(LastRequest) \in {"1", "2"}
                  /\ call.ip = 4)
    /\ (call.state \in {"ringing", "exec"} ~> Ended)

C18_Witness ==
    /\ Ended
    /\ call.end = "hangup"
    /\ InvalidPresses(call.log) = MaxInvalid
    /\ Len(call.log) = 4 + 2 * MaxInvalid
    /\ Has(call.doc, "Play")
    /\ call.log[2].form = {<<"Digits", "3">>}

(***************************************************************************)
(* The language default of the main-menu handler (WebSpec).                *)
(***************************************************************************)
\* C19: for every Digits value, the main-menu handler invoked with a language
\* outside {english, spanish} returns what it returns for english, and its
\* redirect on an invalid digit is to the english main-menu responder.
C19_HandlerDefaultsLanguage ==
    (Reached("ivr_menu_handler") /\ ReqLang \notin {"english", "spanish"}) =>
        /\ resp = Dispatch([req EXCEPT !.path = <<"ivr", "menu-handler", "english">>])
        /\ resp.status = 200
        /\ ReqDigit \notin {"1", "2"} =>
              /\ Tags(resp.doc) = <<"Speak", "Redirect">>
              /\ resp.doc[1] = Speak(MESSAGES.invalid_input.english, "Polly.Joanna", "en-US")
              /\ resp.doc[2].url = [host |-> req.host,
                                    path |-> <<"ivr", "main-menu", "english">>]

C19_Witness ==
    /\ Reached("ivr_menu_handler")
    /\ ReqLang = "french"
    /\ ReqDigit = "3"
    /\ resp.status = 200
    /\ resp.doc[2].url.path = <<"ivr", "main-menu", "english">>

====
